---- MODULE Spec2Model ----
(***************************************************************************)
(* nestjs-udp: the UDP server router (UdpServer) and the UDP client        *)
(* dispatcher (UdpClientProxy) as state machines.                          *)
(*                                                                         *)
(* JavaScript values are tagged records, so that JSON.stringify and        *)
(* JSON.parse, property access on primitives, null and undefined, template *)
(* literals and truthiness are computed the way the runtime computes them. *)
(* Strings are sequences of characters (a literal chunk of a message is    *)
(* written as one element).                                                *)
(***************************************************************************)
EXTENDS Integers, Sequences, FiniteSets, TLC

VARIABLES
    sstate,     \* server socket: "created", "listening", "closed"
    crashed,    \* an exception escaped a socket callback of the server process
    reqs,       \* one record per datagram handed to UdpServer.handlePacket
    pushes,     \* one record per UdpServer.sendMessage call
    logs,       \* the error-level log lines the server has written (as a set)
    cstate,     \* client socket: "open", "closed"
    creqs,      \* one record per UdpClientProxy.publish / dispatchEvent call
    listeners,  \* indexes of creqs whose onMessage is attached to 'message'
    inbound,    \* the datagrams the client socket has received, in order
    sopts,      \* the UdpServerOptions the server was constructed with
    membership, \* socket.addMembership of listen: "none" (not called), "joined", "failed"
    raised,     \* server operations that threw to their caller
    copts,      \* the UdpServerOptions the client was constructed with
    ccrashed,   \* an exception escaped a socket callback of the client process
    keys,       \* AES_KEY and HMAC_KEY of the process that opens envelopes
    envs        \* one record per envelope encryptAndSign has produced

vars == <<sstate, crashed, reqs, pushes, logs, raised, sopts, membership,
          cstate, creqs, listeners, inbound, copts, ccrashed, keys, envs>>
svars == <<sstate, crashed, reqs, pushes, logs, raised, sopts, membership>>
cvars == <<cstate, creqs, listeners, inbound, copts, ccrashed>>
evars == <<keys, envs>>

----------------------------------------------------------------------------
(* Bounds of the model *)

MaxReq == 2        \* datagrams the server receives in one run
MaxEmit == 2       \* values one handler stream emits
MaxPush == 1       \* sendMessage calls in one run
MaxCReq == 2       \* client requests / notifications in one run
MaxInbound == 2    \* datagrams the client socket receives in one run
MaxSeal == 1       \* envelopes sealed in one run

----------------------------------------------------------------------------
(* JavaScript values *)

Undef == [t |-> "undefined"]
Null == [t |-> "null"]
Str(s) == [t |-> "str", v |-> s]
Num(n) == [t |-> "num", v |-> n]
Bool(b) == [t |-> "bool", v |-> b]
Obj(f) == [t |-> "obj", f |-> f]

IsNullish(v) == v.t \in {"undefined", "null"}

\* o.k for a value that is neither null nor undefined (those throw TypeError)
Get(o, k) == IF o.t = "obj" /\ k \in DOMAIN o.f THEN o.f[k] ELSE Undef

\* a ?? b
Coalesce(a, b) == IF IsNullish(a) THEN b ELSE a

\* !!v
Truthy(v) ==
    CASE v.t = "undefined" -> FALSE
      [] v.t = "null" -> FALSE
      [] v.t = "bool" -> v.v
      [] v.t = "num" -> v.v # 0
      [] v.t = "str" -> v.v # <<>>
      [] OTHER -> TRUE

\* `${v}` in a template literal
ToText(v) ==
    CASE v.t = "str" -> v.v
      [] v.t = "undefined" -> <<"undefined">>
      [] v.t = "null" -> <<"null">>
      [] v.t = "bool" -> IF v.v THEN <<"true">> ELSE <<"false">>
      [] v.t = "num" -> <<ToString(v.v)>>
      [] OTHER -> <<"[object Object]">>

\* String.prototype.startsWith
StartsWith(s, p) == Len(s) >= Len(p) /\ SubSeq(s, 1, Len(p)) = p

----------------------------------------------------------------------------
(* JSON text.  A buffer is either bytes that are no JSON text, or the JSON  *)
(* text of a value; the text of an object holds no member whose value is   *)
(* undefined, because JSON.stringify leaves those out.                     *)

Garbage == [k |-> "garbage"]
Json(v) == [k |-> "json", v |-> v]

RECURSIVE JsonValue(_)
JsonValue(v) ==
    IF v.t = "obj"
    THEN Obj([k \in {x \in DOMAIN v.f : v.f[x].t # "undefined"} |-> JsonValue(v.f[k])])
    ELSE v

\* Buffer.from(JSON.stringify(v)) for a v that is not undefined itself
Stringify(v) == Json(JsonValue(v))

\* JSON.parse(buf.toString()) succeeds
Parses(buf) == buf.k = "json"

\* JSON.parse(buf.toString()) when it succeeds
Parse(buf) == buf.v

\* o?.k
OptGet(o, k) == IF IsNullish(o) THEN Undef ELSE Get(o, k)

----------------------------------------------------------------------------
(* UdpServer *)

UdpPatternPrefix == <<"u", "d", "p", ":">>

CmdA == <<"u", "d", "p", ":", "a">>
CmdB == <<"u", "d", "p", ":", "b">>
CmdUpper == <<"U", "D", "P", ":", "a">>
CmdShort == <<"u", "d", "p">>
CmdOther == <<"x", ":", "a">>

\* the commands that have a message handler (the registry is filled by the
\* application: @UdpPattern only takes prefixed commands, @MessagePattern any)
Registry == {CmdA, CmdOther}

\* a lookup that compares only the first characters, as many as the prefix has
HasHandlerLoose(cmd) ==
    \E c \in Registry : StartsWith(c, SubSeq(cmd, 1, Len(UdpPatternPrefix)))

\* Server.getHandlerByPattern(cmd) finds a handler
HasHandler(cmd) == cmd \in Registry

Lower(ch) == CASE ch = "U" -> "u" [] ch = "D" -> "d" [] ch = "P" -> "p" [] OTHER -> ch

\* the prefix compared without regard to case
PrefixOkIgnoreCase(cmd) ==
    /\ Len(cmd) >= Len(UdpPatternPrefix)
    /\ [i \in 1..Len(UdpPatternPrefix) |-> Lower(cmd[i])] = UdpPatternPrefix

\* cmd.startsWith(UdpPatternPrefix)
PrefixOk(cmd) == StartsWith(cmd, UdpPatternPrefix)

\* UdpServer.formatPacket: the packet, or Null when the try block threw
FormatPacketUncaught(buf, options) ==
    LET decoded == Parse(buf)
        rawPattern == Get(decoded, "pattern")
        data == Get(decoded, "data")
        isObjectPattern == rawPattern.t = "obj"
        pattern == IF isObjectPattern THEN rawPattern ELSE Obj([cmd |-> rawPattern])
    IN  Obj([pattern |-> pattern,
             data |-> data,
             host |-> Coalesce(Get(rawPattern, "host"),
                               Coalesce(Get(options, "host"), Str(<<"0.0.0.0">>))),
             port |-> Coalesce(Get(rawPattern, "port"), Get(options, "port")),
             useMulticast |->
                 Bool(Truthy(OptGet(Get(decoded, "pattern"), "multicast"))
                      \/ Truthy(OptGet(Get(options, "multicast"), "enabled")))])

ServerFormatPacket(buf, options) ==
    IF ~Parses(buf) THEN Null                           \* JSON.parse throws
    ELSE IF IsNullish(Parse(buf)) THEN Null             \* destructuring null throws
    ELSE IF IsNullish(Get(Parse(buf), "pattern")) THEN Null  \* rawPattern.host throws
    ELSE FormatPacketUncaught(buf, options)

\* UdpServer.serialize
ServerSerialize(response) == Stringify(Obj([data |-> response]))

\* sendResponse that only suppresses undefined
SendResponseNullSent(response, rinfo) ==
    IF response.t = "undefined" THEN <<>>
    ELSE <<[to |-> rinfo, bytes |-> ServerSerialize(response)]>>

\* sendResponse that sends to the multicast group, on the sender's port
SendResponseToGroup(response, rinfo) ==
    IF IsNullish(response) THEN <<>>
    ELSE <<[to |-> [address |-> "230.1.1.1", port |-> rinfo.port],
            bytes |-> ServerSerialize(response)]>>

\* UdpServer.sendResponse on a running socket: the datagrams handed to socket.send
SendResponse(response, rinfo) ==
    IF IsNullish(response) THEN <<>>
    ELSE <<[to |-> rinfo, bytes |-> ServerSerialize(response)]>>

\* the malformed datagram is dropped without a reply
MsgInvalidJsonAbsent == Null

MsgInvalidJson == Str(<<"Invalid JSON format">>)
MsgMissingPattern == Str(<<"Missing pattern in message">>)
MsgInvalidPrefix ==
    Str(<<"Invalid pattern prefix. Expect prefix: \"">> \o UdpPatternPrefix \o <<":\"">>)
MsgNoHandler(pattern) == Str(<<"No handler found for pattern: ">> \o ToText(pattern))
\* the reply without the exception's text
MsgInternalNoText(error) == Str(<<"Internal server error. ">>)

MsgInternal(error) ==
    Str(<<"Internal server error. ">>
        \o ToText(Coalesce(OptGet(error, "message"), error)))

\* UdpServer.handlePacket for one datagram, the handler (when one is invoked)
\* behaving as h: what was sent, whether a handler was looked up and ran, the state of its
\* value stream, what was logged, and whether an exception escaped
HandlePacket(buf, rinfo, h, options) ==
    LET packet == ServerFormatPacket(buf, options)
        pattern == Get(packet, "pattern")
        cmd == Get(pattern, "cmd")
        base == [msg |-> buf, rinfo |-> rinfo, outcome |-> "invalid",
                 lookedUp |-> FALSE, invoked |-> FALSE, h |-> [k |-> "none"], stream |-> "none",
                 emitted |-> <<>>, replies |-> <<>>, lost |-> 0, log |-> {}]
    IN  IF ~Truthy(packet)
        THEN [base EXCEPT !.replies = SendResponse(MsgInvalidJson, rinfo),
                          !.log = {"Invalid packet format"}]
        ELSE IF ~Truthy(pattern)
        THEN [base EXCEPT !.outcome = "missing",
                          !.replies = SendResponse(MsgMissingPattern, rinfo)]
        ELSE IF cmd.t # "str"
        THEN [base EXCEPT !.outcome = "uncaught"]   \* cmd.startsWith: TypeError
        ELSE IF ~PrefixOk(cmd.v)
        THEN [base EXCEPT !.outcome = "prefix",
                          !.replies = SendResponse(MsgInvalidPrefix, rinfo)]
        ELSE IF ~HasHandler(cmd.v)
        THEN [base EXCEPT !.outcome = "nohandler", !.lookedUp = TRUE,
                          !.replies = SendResponse(MsgNoHandler(pattern), rinfo)]
        ELSE IF h.k = "throw"
        THEN [base EXCEPT !.outcome = "threw", !.lookedUp = TRUE, !.invoked = TRUE, !.h = h,
                          !.replies = SendResponse(MsgInternal(h.e), rinfo),
                          !.log = {"Handler error"}]
        ELSE IF h.k = "value"
        THEN [base EXCEPT !.outcome = "dispatched", !.lookedUp = TRUE, !.invoked = TRUE,
                          !.h = h,
                          !.stream = "complete", !.emitted = <<h.v>>,
                          !.replies = SendResponse(h.v, rinfo)]
        ELSE [base EXCEPT !.outcome = "dispatched", !.lookedUp = TRUE, !.invoked = TRUE,
                          !.h = h,
                          !.stream = "open"]

----------------------------------------------------------------------------
(* The inputs of the server model *)

HostDefault == Str(<<"10.0.0.1">>)
HostOther == Str(<<"10.0.0.2">>)
GroupAddress == Str(<<"230.1.1.1">>)
PortDefault == Num(3000)
PortOther == Num(43210)

ServerOptionSet ==
    { Obj([port |-> PortDefault]),
      Obj([port |-> PortDefault, host |-> HostDefault,
           multicast |-> Obj([enabled |-> Bool(TRUE), address |-> GroupAddress])]) }

RInfos == { [address |-> "192.168.0.1", port |-> 5001],
            [address |-> "192.168.0.2", port |-> 5002] }

DataHello == Str(<<"hello">>)

\* what a handler returns: the values a handler result can carry
Values == {Undef, Null, Obj([data |-> DataHello])}

\* what can be thrown: an Error with a message, a bare string
Thrown == {Obj([message |-> Str(<<"boom">>)]), Str(<<"oops">>)}

\* how one handler invocation behaves: throws, returns a plain value, or
\* returns a promise / observable whose values arrive later
SyncBehaviours ==
    {[k |-> "throw", e |-> e] : e \in Thrown}
        \cup {[k |-> "value", v |-> v] : v \in Values}

\* the behaviours that produce a value stream: a plain value (a stream of
\* one value, emitted at once), or a promise / observable
StreamBehaviours ==
    {[k |-> "value", v |-> v] : v \in Values}
        \cup {[k |-> "stream"], [k |-> "throw", e |-> Str(<<"oops">>)]}

StringPatterns == {Str(c) : c \in {CmdA, CmdB, CmdUpper, CmdShort, CmdOther}}

ObjectPatterns ==
    { Obj([cmd |-> Str(CmdA)]),
      Obj([cmd |-> Str(CmdA), host |-> HostOther, port |-> PortOther,
           multicast |-> Bool(TRUE)]),
      Obj([cmd |-> Str(CmdOther), host |-> HostOther]),
      Obj([cmd |-> Str(CmdB), multicast |-> Bool(TRUE)]),
      Obj([host |-> HostOther]),
      Obj([cmd |-> Num(5)]) }

\* the datagrams a peer can send to the server
Datagrams ==
    {Garbage, Json(Null), Json(Str(CmdA)),
     Json(Obj([data |-> DataHello])),
     Json(Obj([pattern |-> Null, data |-> DataHello])),
     Json(Obj([pattern |-> Num(5), data |-> DataHello]))}
        \cup {Json(Obj([pattern |-> p, data |-> DataHello])) :
                 p \in StringPatterns \cup ObjectPatterns}

\* datagrams whose command has a handler
StreamDatagrams ==
    {Json(Obj([pattern |-> Obj([cmd |-> Str(CmdA), host |-> HostOther,
                                port |-> PortOther, multicast |-> Bool(TRUE)]),
               data |-> DataHello])),
     Garbage}

----------------------------------------------------------------------------
(* The server's operations *)

MulticastEnabled(options) == Truthy(OptGet(Get(options, "multicast"), "enabled"))

\* the bind callback of listen: addMembership is called when multicast is
\* enabled, and throws when the join fails
JoinOnBind(options, joinOk) ==
    IF ~MulticastEnabled(options) THEN "none"
    ELSE IF joinOk THEN "joined" ELSE "failed"

\* UdpServer.listen: bind; on success the 'listening' listener and then the
\* bind callback run, and the bind callback joins the multicast group; on
\* failure the 'error' listener logs
Listen ==
    /\ sstate = "created" /\ ~crashed
    /\ \E bindOk \in BOOLEAN, joinOk \in BOOLEAN :
         IF bindOk
         THEN /\ sstate' = "listening"
              /\ membership' = JoinOnBind(sopts, joinOk)
              /\ crashed' = (membership' = "failed")
              /\ logs' = logs
         ELSE /\ logs' = logs \cup {"UDP socket error"}
              /\ UNCHANGED <<sstate, crashed, membership>>
    /\ UNCHANGED <<reqs, pushes, raised, sopts>>
    /\ UNCHANGED <<cvars, evars>>

\* the 'message' listener: UdpServer.handlePacket(msg, rinfo), for a datagram
\* of bufs and a handler behaving as one of hs
ReceiveFrom(bufs, hs) ==
    /\ sstate = "listening" /\ ~crashed
    /\ Len(reqs) < MaxReq
    /\ \E buf \in bufs, rinfo \in RInfos, h \in hs :
         LET r == HandlePacket(buf, rinfo, h, sopts) IN
         /\ reqs' = Append(reqs, r)
         /\ logs' = logs \cup r.log
         /\ crashed' = (r.outcome = "uncaught")
    /\ UNCHANGED <<sstate, pushes, raised, sopts, membership>>
    /\ UNCHANGED <<cvars, evars>>

\* a datagram arrives; the handler throws or returns a plain value
Receive == ReceiveFrom(Datagrams, SyncBehaviours)

\* a datagram that has a handler arrives; the handler returns
ReceiveStream == ReceiveFrom(StreamDatagrams, StreamBehaviours)

RECURSIVE TotalEmitted(_)
TotalEmitted(rs) == IF rs = <<>> THEN 0 ELSE Len(Head(rs).emitted) + TotalEmitted(Tail(rs))

\* the next callback of UdpServer.sendResult: the handler's stream emits v.
\* On a closed socket socket.send throws inside the subscriber, which the
\* stream library rethrows from a timer: an uncaught exception.
Emit ==
    /\ ~crashed
    /\ TotalEmitted(reqs) < MaxEmit
    /\ \E i \in 1..Len(reqs), v \in Values :
         /\ reqs[i].stream = "open"
         /\ IF sstate = "closed" /\ ~IsNullish(v)
            THEN /\ crashed' = TRUE
                 /\ reqs' = [reqs EXCEPT ![i].emitted = Append(@, v),
                                         ![i].lost = @ + 1]
            ELSE /\ crashed' = crashed
                 /\ reqs' = [reqs EXCEPT ![i].emitted = Append(@, v),
                                         ![i].replies = @ \o SendResponse(v, reqs[i].rinfo)]
    /\ UNCHANGED <<sstate, pushes, logs, raised, sopts, membership>>
    /\ UNCHANGED <<cvars, evars>>

\* the failure is answered with an error datagram
OnStreamErrorReplies(r) ==
    [r EXCEPT !.stream = "error",
              !.replies = @ \o SendResponse(Str(<<"Observable error">>), r.rinfo)]

\* the request r once the error callback of UdpServer.sendResult has run
OnStreamError(r) == [r EXCEPT !.stream = "error"]

\* the handler's stream fails: the error callback of sendResult logs
StreamError ==
    /\ ~crashed
    /\ \E i \in 1..Len(reqs) :
         /\ reqs[i].stream = "open"
         /\ reqs' = [reqs EXCEPT ![i] = OnStreamError(@)]
    /\ logs' = logs \cup {"Observable error"}
    /\ UNCHANGED <<sstate, crashed, pushes, raised, sopts, membership>>
    /\ UNCHANGED <<cvars, evars>>

\* the handler's stream completes (sendResult subscribes no complete callback)
StreamComplete ==
    /\ ~crashed
    /\ \E i \in 1..Len(reqs) :
         /\ reqs[i].stream = "open"
         /\ reqs' = [reqs EXCEPT ![i].stream = "complete"]
    /\ UNCHANGED <<sstate, crashed, pushes, logs, raised, sopts, membership>>
    /\ UNCHANGED <<cvars, evars>>

\* UdpServer.close: socket.close() throws to the caller on a closed socket
Close ==
    /\ ~crashed
    /\ IF sstate = "closed"
       THEN raised' = raised \cup {"close"} /\ sstate' = sstate
       ELSE raised' = raised /\ sstate' = "closed"
    /\ UNCHANGED <<crashed, reqs, pushes, logs, sopts, membership>>
    /\ UNCHANGED <<cvars, evars>>

ClientIdle ==
    /\ cstate = "open" /\ creqs = <<>> /\ listeners = {} /\ inbound = <<>>
    /\ ccrashed = FALSE
    /\ copts = Obj([port |-> PortDefault, host |-> HostDefault])

\* the keys of the process that sealed: UDP_AES_KEY, UDP_HMAC_KEY
SealKeys == [aes |-> "aes1", hmac |-> "hmac1"]

\* no envelope yet, both processes started with the same keys
CryptoIdle == keys = SealKeys /\ envs = <<>>

Init ==
    /\ sstate = "created" /\ crashed = FALSE /\ reqs = <<>> /\ pushes = <<>>
    /\ logs = {} /\ raised = {} /\ membership = "none"
    /\ sopts \in ServerOptionSet
    /\ ClientIdle
    /\ CryptoIdle

\* the router handling datagrams one at a time
Next == Listen \/ Receive \/ Close

Spec == Init /\ [][Next]_vars

\* the router with handler value streams in flight
StreamNext ==
    Listen \/ ReceiveStream \/ Emit \/ StreamError \/ StreamComplete \/ Close

StreamSpec == Init /\ [][StreamNext]_vars

\* the buffer UdpServer.sendMessage builds: serialize({pattern, data})
PushMessage(pattern, data) == ServerSerialize(Obj([pattern |-> pattern, data |-> data]))

PushHosts == {HostDefault, HostOther}
PushPorts == {PortDefault, PortOther}
PushCommands == {CmdA, CmdB, CmdOther}
PushData == {Undef, Null, DataHello}

\* UdpServer.sendMessage(targetHost, targetPort, pattern, data); the send
\* callback logs an error.  On a closed socket socket.send throws to the caller.
SendMessage ==
    /\ ~crashed
    /\ Len(pushes) < MaxPush
    /\ \E host \in PushHosts, port \in PushPorts, cmd \in PushCommands,
          data \in PushData, err \in BOOLEAN :
         IF sstate = "closed"
         THEN /\ raised' = raised \cup {"sendMessage"}
              /\ UNCHANGED <<pushes, logs>>
         ELSE /\ pushes' = Append(pushes,
                    [targetHost |-> host, targetPort |-> port, pattern |-> cmd,
                     data |-> data, err |-> err,
                     to |-> [address |-> host, port |-> port],
                     bytes |-> PushMessage(Str(cmd), data)])
              /\ logs' = IF err THEN logs \cup {"Error sending UDP message"} ELSE logs
              /\ raised' = raised
    /\ UNCHANGED <<sstate, crashed, reqs, sopts, membership>>
    /\ UNCHANGED <<cvars, evars>>

\* the router pushing messages on its own
PushNext == Listen \/ SendMessage \/ Close

PushSpec == Init /\ [][PushNext]_vars

----------------------------------------------------------------------------
(* UdpClientProxy *)

\* UdpClientProxy.formatPacket: host
ResolveHost(rawPattern, options) ==
    Coalesce(Get(rawPattern, "host"), Get(options, "host"))

\* the pattern's port is ignored
ResolvePortDefault(rawPattern, options) == Get(options, "port")

\* UdpClientProxy.formatPacket: port
ResolvePort(rawPattern, options) ==
    Coalesce(Get(rawPattern, "port"), Get(options, "port"))

\* UdpClientProxy.formatPacket, for a packet whose pattern is not null or undefined
ClientFormatPacket(packet, options) ==
    LET rawPattern == Get(packet, "pattern")
        data == Get(packet, "data")
        isObjectPattern == rawPattern.t = "obj"
    IN  [pattern |-> IF isObjectPattern THEN Obj([cmd |-> Get(rawPattern, "cmd")])
                     ELSE rawPattern,
         data |-> data,
         host |-> ResolveHost(rawPattern, options),
         port |-> ResolvePort(rawPattern, options),
         useMulticast |-> Truthy(OptGet(Get(packet, "pattern"), "multicast"))
                          \/ Truthy(OptGet(Get(options, "multicast"), "enabled"))]

\* the pattern's host wins over the group address
SendAddressHostFirst(useMulticast, options, host) ==
    IF ~IsNullish(host) /\ host # Get(options, "host") THEN host
    ELSE IF useMulticast /\ Truthy(OptGet(Get(options, "multicast"), "address"))
    THEN OptGet(Get(options, "multicast"), "address")
    ELSE host

\* the address of publish and dispatchEvent
SendAddress(useMulticast, options, host) ==
    IF useMulticast /\ Truthy(OptGet(Get(options, "multicast"), "address"))
    THEN OptGet(Get(options, "multicast"), "address")
    ELSE host

\* Buffer.from(JSON.stringify({pattern, data})) of publish and dispatchEvent
ClientEncode(pattern, data) == Stringify(Obj([pattern |-> pattern, data |-> data]))

\* the call to socket.send that publish and dispatchEvent make for a packet
Outgoing(kind, packet, options) ==
    LET f == ClientFormatPacket(packet, options) IN
    [kind |-> kind, packet |-> packet, host |-> f.host, port |-> f.port,
     useMulticast |-> f.useMulticast,
     to |-> [address |-> SendAddress(f.useMulticast, options, f.host), port |-> f.port],
     bytes |-> ClientEncode(f.pattern, f.data),
     send |-> "pending", cancelled |-> FALSE, callbacks |-> <<>>, resolved |-> FALSE,
     rejected |-> FALSE]

\* a successful send also reports a timeout error to the caller
AfterSendTimeout(r, ok) ==
    [attach |-> ok, callbacks |-> Append(r.callbacks, [k |-> "err"])]

\* the listener is attached whatever the send reported
AfterSendAttachAlways(r, ok) ==
    [attach |-> TRUE,
     callbacks |-> IF ok THEN r.callbacks ELSE Append(r.callbacks, [k |-> "err"])]

\* the send callback of publish: callback({err}), or socket.on('message', onMessage)
AfterSend(r, ok) ==
    IF ok THEN [attach |-> TRUE, callbacks |-> r.callbacks]
    ELSE [attach |-> FALSE, callbacks |-> Append(r.callbacks, [k |-> "err"])]

\* the promise is rejected when the send failed
NotifyDoneReject(r, ok) == [resolved |-> ok, rejected |-> ~ok, attach |-> FALSE]

\* the send callback of dispatchEvent: () => resolve(void 0)
NotifyDone(r, ok) == [resolved |-> TRUE, rejected |-> FALSE, attach |-> FALSE]

\* UdpClientProxy.publish / dispatchEvent for a packet of packets: on a closed
\* socket socket.send throws, to the caller of publish or inside the promise
\* executor of dispatchEvent (the promise is rejected), and nothing else happens
CallFrom(kind, packets) ==
    /\ ~ccrashed
    /\ Len(creqs) < MaxCReq
    /\ \E packet \in packets :
         LET r == Outgoing(kind, packet, copts) IN
         creqs' = Append(creqs,
                    IF cstate = "closed"
                    THEN [r EXCEPT !.send = "threw", !.rejected = (kind = "notify")]
                    ELSE r)
    /\ UNCHANGED <<cstate, listeners, inbound, copts, ccrashed>>
    /\ UNCHANGED <<svars, evars>>

\* the completion of a send: the callback of publish, or of dispatchEvent
SendDone ==
    /\ ~ccrashed
    /\ \E i \in 1..Len(creqs), ok \in BOOLEAN :
         /\ creqs[i].send = "pending"
         /\ IF creqs[i].kind = "request"
            THEN LET a == AfterSend(creqs[i], ok) IN
                 /\ creqs' = [creqs EXCEPT ![i].send = IF ok THEN "ok" ELSE "err",
                                           ![i].callbacks = a.callbacks]
                 /\ listeners' = IF a.attach THEN listeners \cup {i} ELSE listeners
            ELSE LET a == NotifyDone(creqs[i], ok) IN
                 /\ creqs' = [creqs EXCEPT ![i].send = IF ok THEN "ok" ELSE "err",
                                           ![i].resolved = a.resolved,
                                           ![i].rejected = a.rejected]
                 /\ listeners' = IF a.attach THEN listeners \cup {i} ELSE listeners
    /\ UNCHANGED <<cstate, inbound, copts, ccrashed>>
    /\ UNCHANGED <<svars, evars>>

\* the function publish returned: socket.off('message', onMessage)
Unsubscribe ==
    /\ ~ccrashed
    /\ \E i \in 1..Len(creqs) :
         /\ creqs[i].kind = "request" /\ creqs[i].send # "threw"
         /\ listeners' = listeners \ {i}
         /\ creqs' = [creqs EXCEPT ![i].cancelled = TRUE]
    /\ UNCHANGED <<cstate, inbound, copts, ccrashed>>
    /\ UNCHANGED <<svars, evars>>

\* the datagrams a peer can send to the client
Inbound == {Garbage, Json(Null), Json(Obj([data |-> Str(<<"pong">>)])),
            Json(Obj([other |-> Num(1)]))}

\* onMessage throws for this datagram: JSON.parse throws, or resp is null
OnMessageThrows(buf) == ~Parses(buf) \/ IsNullish(Parse(buf))

\* only the listener of the latest request is called
DeliveredToLatest(rs, ls, buf) ==
    [i \in 1..Len(rs) |->
        IF i \in ls /\ \A j \in ls : j <= i
        THEN [rs[i] EXCEPT !.callbacks =
                Append(@, [k |-> "response", v |-> Get(Parse(buf), "data")])]
        ELSE rs[i]]

\* the requests rs after the socket emitted 'message' with buf: the onMessage
\* of every attached listener calls callback({response: resp.data})
Delivered(rs, ls, buf) ==
    [i \in 1..Len(rs) |->
        IF i \in ls
        THEN [rs[i] EXCEPT !.callbacks =
                Append(@, [k |-> "response", v |-> Get(Parse(buf), "data")])]
        ELSE rs[i]]

\* a datagram arrives on the client socket (bound since the first send):
\* every attached onMessage runs; an exception in a listener escapes
Deliver ==
    /\ ~ccrashed /\ cstate = "open"
    /\ Len(inbound) < MaxInbound
    /\ \E i \in 1..Len(creqs) : creqs[i].send # "threw"
    /\ \E buf \in Inbound :
         /\ inbound' = Append(inbound, buf)
         /\ IF listeners # {} /\ OnMessageThrows(buf)
            THEN ccrashed' = TRUE /\ creqs' = creqs
            ELSE /\ ccrashed' = ccrashed
                 /\ creqs' = Delivered(creqs, listeners, buf)
    /\ UNCHANGED <<cstate, listeners, copts>>
    /\ UNCHANGED <<svars, evars>>

\* UdpClientProxy.close (on a closed socket socket.close() throws to the
\* caller and changes nothing)
ClientClose ==
    /\ ~ccrashed /\ cstate = "open"
    /\ cstate' = "closed"
    /\ UNCHANGED <<creqs, listeners, inbound, copts, ccrashed>>
    /\ UNCHANGED <<svars, evars>>

ClientHello == Obj([pattern |-> Str(CmdA), data |-> DataHello])

Publish == CallFrom("request", {ClientHello})
DispatchEvent == CallFrom("notify", {ClientHello})

ServerIdle ==
    /\ sstate = "created" /\ crashed = FALSE /\ reqs = <<>> /\ pushes = <<>>
    /\ logs = {} /\ raised = {} /\ membership = "none"
    /\ sopts = Obj([port |-> PortDefault])

ClientInit == ServerIdle /\ ClientIdle /\ CryptoIdle

\* the dispatcher with requests and notifications in flight
ClientNext ==
    Publish \/ DispatchEvent \/ SendDone \/ Unsubscribe \/ Deliver \/ ClientClose

ClientSpec == ClientInit /\ [][ClientNext]_vars

\* the configurations of a client
ClientOptionSet ==
    { Obj([port |-> PortDefault]),
      Obj([port |-> PortDefault, host |-> HostDefault]),
      Obj([port |-> PortDefault, host |-> HostDefault,
           multicast |-> Obj([enabled |-> Bool(FALSE), address |-> GroupAddress])]),
      Obj([port |-> PortDefault, host |-> HostDefault,
           multicast |-> Obj([enabled |-> Bool(TRUE), address |-> GroupAddress])]),
      Obj([port |-> PortDefault, host |-> HostDefault,
           multicast |-> Obj([enabled |-> Bool(TRUE), address |-> Str(<<>>)])]) }

\* the patterns a caller can pass
ClientPatterns ==
    { Str(CmdA),
      Obj([cmd |-> Str(CmdA)]),
      Obj([cmd |-> Str(CmdA), host |-> HostOther]),
      Obj([cmd |-> Str(CmdA), port |-> PortOther]),
      Obj([cmd |-> Str(CmdA), host |-> HostOther, port |-> PortOther]),
      Obj([cmd |-> Str(CmdA), multicast |-> Bool(TRUE)]),
      Obj([cmd |-> Str(CmdA), host |-> HostOther, port |-> PortOther,
           multicast |-> Bool(TRUE)]),
      Obj([cmd |-> Str(CmdA), host |-> Null, port |-> PortOther,
           multicast |-> Bool(FALSE)]) }

ClientPackets == {Obj([pattern |-> p, data |-> DataHello]) : p \in ClientPatterns}

PublishAny == CallFrom("request", ClientPackets)
DispatchEventAny == CallFrom("notify", ClientPackets)

ResolveInit ==
    /\ ServerIdle
    /\ cstate = "open" /\ creqs = <<>> /\ listeners = {} /\ inbound = <<>>
    /\ ccrashed = FALSE
    /\ copts \in ClientOptionSet
    /\ CryptoIdle

\* the dispatcher resolving and encoding, for every pattern and configuration
ResolveNext == PublishAny \/ DispatchEventAny

ResolveSpec == ResolveInit /\ [][ResolveNext]_vars

----------------------------------------------------------------------------
(* encryptAndSign / decryptAndVerify.  AES-256-GCM and HMAC-SHA256 are      *)
(* symbolic: a ciphertext, a tag or a digest equals another one only when   *)
(* it was computed from the same key and the same input.  Base64 text is    *)
(* the bytes it decodes to, together with the value of the bits of its last *)
(* character that carry no data.                                            *)

IvLength == 12
TagLength == 16
DigestLength == 32

RECURSIVE JsonTextLen(_), MembersLen(_, _)
\* the number of characters of "key":value for the members ks of object v
MembersLen(v, ks) ==
    IF ks = {} THEN 0
    ELSE LET k == CHOOSE x \in ks : TRUE
         IN  Len(k) + 3 + JsonTextLen(v.f[k]) + MembersLen(v, ks \ {k})

RECURSIVE ChunksLen(_)
ChunksLen(s) == IF s = <<>> THEN 0 ELSE Len(Head(s)) + ChunksLen(Tail(s))

\* the length of JSON.stringify(v), v holding no undefined member
JsonTextLen(v) ==
    CASE v.t = "str" -> 2 + ChunksLen(v.v)
      [] v.t = "num" -> Len(ToString(v.v))
      [] v.t = "bool" -> IF v.v THEN 4 ELSE 5
      [] v.t = "null" -> 4
      [] OTHER -> IF DOMAIN v.f = {} THEN 2
                  ELSE 1 + Cardinality(DOMAIN v.f) + MembersLen(v, DOMAIN v.f)

\* crypto.randomBytes(12)
RandomBytes(nonce) == [k |-> "random", n |-> IvLength, id |-> nonce]

\* cipher.update(plaintext) ++ cipher.final() of aes-256-gcm: as long as the plaintext
GcmCiphertext(key, iv, plaintext) ==
    [k |-> "ciphertext", n |-> JsonTextLen(plaintext.v), key |-> key, iv |-> iv,
     plaintext |-> plaintext]

\* cipher.getAuthTag()
GcmAuthTag(key, iv, ciphertext) ==
    [k |-> "tag", n |-> TagLength, key |-> key, iv |-> iv, ciphertext |-> ciphertext]

\* crypto.createHmac('sha256', key).update(Buffer.concat(parts)).digest()
Hmac(key, parts) == [k |-> "hmac", n |-> DigestLength, key |-> key, parts |-> parts]

\* the bits of the last base64 character that carry no data, for n bytes
SlackBits(n) == CASE n % 3 = 0 -> 0 [] n % 3 = 1 -> 4 [] OTHER -> 2

\* buf.toString('base64'): the unused bits are zero
ToBase64(bytes) == [bytes |-> bytes, slack |-> 0]

\* Buffer.from(text, 'base64'): the unused bits are dropped, whatever they are
FromBase64(text) == text.bytes

\* encryptAndSign(payload) drawing the given nonce
EncryptAndSign(payload, nonce, K) ==
    LET iv == RandomBytes(nonce)
        plaintext == Stringify(payload)
        ciphertext == GcmCiphertext(K.aes, iv, plaintext)
        authTag == GcmAuthTag(K.aes, iv, ciphertext)
        messageToSign == <<iv, ciphertext, authTag>>
    IN  [iv |-> ToBase64(iv),
         ciphertext |-> ToBase64(ciphertext),
         authTag |-> ToBase64(authTag),
         signature |-> ToBase64(Hmac(K.hmac, messageToSign))]

\* decipher.final() accepts the tag
GcmVerifies(key, iv, ciphertext, authTag) ==
    /\ ciphertext.k = "ciphertext" /\ ciphertext.key = key /\ ciphertext.iv = iv
    /\ authTag = GcmAuthTag(key, iv, ciphertext)

\* the decrypted text is returned as it is
DecryptedUnparsed(decrypted) == decrypted

\* JSON.parse(decrypted.toString())
Decrypted(decrypted) == Parse(decrypted)

\* decryptAndVerify(packet): what it returns or throws, and whether the
\* decipher was created
DecryptAndVerify(packet, K) ==
    LET iv == FromBase64(packet.iv)
        ciphertext == FromBase64(packet.ciphertext)
        authTag == FromBase64(packet.authTag)
        messageToVerify == <<iv, ciphertext, authTag>>
        expectedSignature == ToBase64(Hmac(K.hmac, messageToVerify))
    IN  IF packet.signature # expectedSignature
        THEN [k |-> "SignatureMismatch", decipher |-> FALSE]
        ELSE IF ~GcmVerifies(K.aes, iv, ciphertext, authTag)
        THEN [k |-> "AuthenticationFailure", decipher |-> TRUE]
        ELSE [k |-> "ok", decipher |-> TRUE, v |-> Decrypted(ciphertext.plaintext)]

\* the payloads sealed: JSON texts of 7, 8, 9 and 34 characters
Payloads ==
    { Obj([a |-> Num(1)]), Obj([a |-> Num(10)]), Obj([a |-> Num(100)]),
      Obj([cmd |-> Str(CmdA), data |-> Obj([n |-> Null])]) }

Nonces == {"nonce1", "nonce2"}

\* the keys the opening process can have been started with
KeySet == [aes : {"aes1", "aes2"}, hmac : {"hmac1", "hmac2"}]

EnvelopeFields == {"iv", "ciphertext", "authTag", "signature"}

\* bytes that differ from b in one place
AlteredBytes(b) == [k |-> "altered", n |-> b.n, of |-> b]

\* a base64 text with one character replaced by another character of the
\* alphabet: either data bits changed, or only unused bits of the last character
Alterations(text) ==
    {[text EXCEPT !.bytes = AlteredBytes(@)]}
        \cup {[text EXCEPT !.slack = s] :
                s \in (0..(2 ^ SlackBits(text.bytes.n) - 1)) \ {text.slack}}

\* encryptAndSign called by the sealing process
Seal ==
    /\ Len(envs) < MaxSeal
    /\ \E payload \in Payloads, nonce \in Nonces :
         envs' = Append(envs, [payload |-> payload, nonce |-> nonce,
                               packet |-> EncryptAndSign(payload, nonce, SealKeys),
                               altered |-> "none", opened |-> [k |-> "none"]])
    /\ UNCHANGED <<keys, svars, cvars>>

\* one character of one field of an envelope is changed on its way
Alter ==
    /\ \E i \in 1..Len(envs), field \in EnvelopeFields :
         /\ envs[i].altered = "none" /\ envs[i].opened.k = "none"
         /\ \E text \in Alterations(envs[i].packet[field]) :
              envs' = [envs EXCEPT ![i].packet[field] = text, ![i].altered = field]
    /\ UNCHANGED <<keys, svars, cvars>>

\* decryptAndVerify called by the opening process
Open ==
    /\ \E i \in 1..Len(envs) :
         /\ envs[i].opened.k = "none"
         /\ envs' = [envs EXCEPT ![i].opened = DecryptAndVerify(envs[i].packet, keys)]
    /\ UNCHANGED <<keys, svars, cvars>>

CryptoInit == ServerIdle /\ ClientIdle /\ keys \in KeySet /\ envs = <<>>

CryptoNext == Seal \/ Alter \/ Open

CryptoSpec == CryptoInit /\ [][CryptoNext]_vars

----------------------------------------------------------------------------
(* Claims about the handling of one datagram *)

\* the command a datagram carries: the string pattern, or the cmd member of
\* an object pattern, when that is a string
HasCommand(buf) ==
    /\ buf.k = "json" /\ buf.v.t = "obj" /\ "pattern" \in DOMAIN buf.v.f
    /\ LET p == buf.v.f["pattern"] IN
         \/ p.t = "str"
         \/ p.t = "obj" /\ "cmd" \in DOMAIN p.f /\ p.f["cmd"].t = "str"

CommandOf(buf) ==
    LET p == buf.v.f["pattern"] IN IF p.t = "str" THEN p.v ELSE p.f["cmd"].v

Prefixed(cmd) == Len(cmd) >= 4 /\ cmd[1] = "u" /\ cmd[2] = "d" /\ cmd[3] = "p" /\ cmd[4] = ":"

\* s holds m as a substring
Contains(s, m) == \E i \in 0..(Len(s) - Len(m)) : SubSeq(s, i + 1, i + Len(m)) = m

\* r sent exactly one datagram, to the sender of its datagram, whose data is
\* a text for which Q holds
OneTextReply(r, Q(_)) ==
    /\ Len(r.replies) = 1
    /\ r.replies[1].to = r.rinfo
    /\ r.replies[1].bytes.k = "json"
    /\ DOMAIN r.replies[1].bytes.v.f = {"data"}
    /\ r.replies[1].bytes.v.f["data"].t = "str"
    /\ Q(r.replies[1].bytes.v.f["data"].v)

IsPrefixViolation(text) == Contains(text, <<"Invalid pattern prefix. Expect prefix: \"">>)
IsNotFound(text) == Contains(text, <<"No handler found for pattern: ">>)

\* C1: a datagram whose command does not start with the protocol prefix
\* invokes no handler and is answered by exactly one prefix-violation reply
\* to its sender.
C1_PrefixViolation ==
    \A i \in 1..Len(reqs) :
        (HasCommand(reqs[i].msg) /\ ~Prefixed(CommandOf(reqs[i].msg)))
            => /\ ~reqs[i].invoked
               /\ OneTextReply(reqs[i], IsPrefixViolation)

\* a datagram for a command without the prefix that has a handler was received
C1_Witness ==
    \E i \in 1..Len(reqs) :
        /\ HasCommand(reqs[i].msg) /\ CommandOf(reqs[i].msg) = CmdOther
        /\ reqs[i].outcome = "prefix"

ExceptionText(e) == IF e.t = "obj" THEN e.f["message"].v ELSE e.v

\* C3: a handler that throws on invocation causes exactly one error datagram,
\* to the sender, holding the exception's message text, and nothing else; the
\* server is left able to handle the next datagram.
C3_SyncThrow ==
    \A i \in 1..Len(reqs) :
        reqs[i].h.k = "throw"
            => /\ LET HasText(text) == /\ Contains(text, <<"Internal server error. ">>)
                                       /\ Contains(text, ExceptionText(reqs[i].h.e))
                  IN OneTextReply(reqs[i], HasText)
               /\ reqs[i].stream = "none" /\ reqs[i].emitted = <<>>
               /\ (i = Len(reqs) => ~crashed /\ (sstate = "listening" \/ sstate = "closed"))

\* after a handler threw, the next datagram was dispatched to a handler
C3_Witness ==
    /\ Len(reqs) >= 2
    /\ reqs[1].h.k = "throw"
    /\ reqs[2].outcome = "dispatched" /\ reqs[2].invoked

NonNull(vs) == SelectSeq(vs, LAMBDA v : v.t \notin {"undefined", "null"})

C5_NoUncaught ==
    /\ ~(crashed /\ reqs # <<>> /\ reqs[Len(reqs)].outcome = "uncaught")
    /\ \A i \in 1..Len(reqs) : reqs[i].outcome # "uncaught"

----------------------------------------------------------------------------
(* Claims about sendMessage *)

\* C10: sendMessage puts one datagram on the wire, addressed to host:port,
\* whose envelope is {pattern: command, data}, which a receiving router
\* decodes as a packet with that command and data; a send error is logged.
C10_SendMessage ==
    \A i \in 1..Len(pushes) :
        LET m == pushes[i]
            received == ServerFormatPacket(m.bytes, sopts)
        IN  /\ m.to = [address |-> m.targetHost, port |-> m.targetPort]
            /\ m.bytes = Json(JsonValue(Obj([pattern |-> Str(m.pattern), data |-> m.data])))
            /\ Truthy(received)
            /\ Get(Get(received, "pattern"), "cmd") = Str(m.pattern)
            /\ (m.err => "Error sending UDP message" \in logs)

----------------------------------------------------------------------------
(* Claims about the client dispatcher *)

\* C6: once the unsubscribe handle of a request has been invoked, the
\* request has no listener attached to the socket.
C6_Cancelled ==
    \A i \in 1..Len(creqs) : creqs[i].cancelled => i \notin listeners

\* C7: the listener of a request is attached only after its own send has
\* succeeded; a failed send notifies the caller with one error, exactly
\* once, and its listener is never attached.
C7_SendOutcome ==
    \A i \in 1..Len(creqs) :
        creqs[i].kind = "request"
            => /\ (i \in listeners => creqs[i].send = "ok")
               /\ (creqs[i].send = "err"
                     => creqs[i].callbacks = <<[k |-> "err"]>> /\ i \notin listeners)
               /\ (creqs[i].send \in {"pending", "threw"} => creqs[i].callbacks = <<>>)
               /\ (creqs[i].send = "ok"
                     => \A k \in 1..Len(creqs[i].callbacks) : creqs[i].callbacks[k].k = "response")

\* one request's send failed and another's succeeded and received a response
C7_Witness ==
    \E i, j \in 1..Len(creqs) :
        /\ creqs[i].kind = "request" /\ creqs[i].send = "err"
        /\ creqs[i].callbacks = <<[k |-> "err"]>>
        /\ creqs[j].kind = "request" /\ creqs[j].send = "ok" /\ j \in listeners
        /\ Len(creqs[j].callbacks) = 1

\* the pattern carries member k (an object pattern with a k that is not null)
Carries(pattern, k) ==
    pattern.t = "obj" /\ k \in DOMAIN pattern.f /\ pattern.f[k].t \notin {"null", "undefined"}

Configured(k) == IF k \in DOMAIN copts.f THEN copts.f[k] ELSE Undef

ExpectedHost(pattern) == IF Carries(pattern, "host") THEN pattern.f["host"] ELSE Configured("host")
ExpectedPort(pattern) == IF Carries(pattern, "port") THEN pattern.f["port"] ELSE Configured("port")

\* C8: the effective host is the pattern's host when it carries one and the
\* configured host otherwise; independently, the same for the port; a
\* string pattern resolves to the configured host and port.
C8_Resolution ==
    \A i \in 1..Len(creqs) :
        LET pattern == creqs[i].packet.f["pattern"] IN
        /\ creqs[i].host = ExpectedHost(pattern)
        /\ creqs[i].port = ExpectedPort(pattern)
        /\ (pattern.t = "str"
              => creqs[i].host = Configured("host") /\ creqs[i].port = Configured("port"))

\* a pattern that carries a port and no host was resolved, under a
\* configuration with another port and a host, and a string pattern was
C8_Witness ==
    /\ "host" \in DOMAIN copts.f
    /\ \E i, j \in 1..Len(creqs) :
         /\ creqs[i].packet.f["pattern"] = Obj([cmd |-> Str(CmdA), port |-> PortOther])
         /\ creqs[i].host = HostDefault /\ creqs[i].port = PortOther
         /\ creqs[j].packet.f["pattern"] = Str(CmdA)
         /\ creqs[j].port = PortDefault

\* a group address is configured
GroupConfigured ==
    /\ "multicast" \in DOMAIN copts.f
    /\ copts.f["multicast"].f["address"].t = "str"
    /\ copts.f["multicast"].f["address"].v # <<>>

\* pattern.multicast OR config.multicast.enabled
MulticastAsked(pattern) ==
    \/ pattern.t = "obj" /\ "multicast" \in DOMAIN pattern.f /\ pattern.f["multicast"] = Bool(TRUE)
    \/ "multicast" \in DOMAIN copts.f /\ copts.f["multicast"].f["enabled"] = Bool(TRUE)

\* C9: the datagram of a request or a notification is addressed to the group
\* address exactly when multicast is asked for and a group address is
\* configured, whatever host the pattern carries, and to the resolved host
\* otherwise; the port is the resolved port in both cases.
C9_Multicast ==
    \A i \in 1..Len(creqs) :
        LET pattern == creqs[i].packet.f["pattern"] IN
        /\ creqs[i].to.address =
              IF MulticastAsked(pattern) /\ GroupConfigured
              THEN copts.f["multicast"].f["address"]
              ELSE ExpectedHost(pattern)
        /\ creqs[i].to.port = ExpectedPort(pattern)

\* a request and a notification whose pattern carries a host and asks for
\* multicast were both addressed to the configured group
C9_Witness ==
    /\ GroupConfigured
    /\ \E i, j \in 1..Len(creqs) :
         /\ creqs[i].kind = "request" /\ creqs[j].kind = "notify"
         /\ \A n \in {i, j} :
              /\ Carries(creqs[n].packet.f["pattern"], "host")
              /\ Carries(creqs[n].packet.f["pattern"], "multicast")
              /\ creqs[n].to = [address |-> GroupAddress, port |-> PortOther]

\* C11: a notification completes when its send completes, successfully or
\* not, and only then; the send error is not reported; no listener is
\* attached for it and no response reaches its caller.
C11_Notify ==
    \A i \in 1..Len(creqs) :
        creqs[i].kind = "notify"
            => /\ (creqs[i].send = "pending" => ~creqs[i].resolved /\ ~creqs[i].rejected)
               /\ (creqs[i].send \in {"ok", "err"} => creqs[i].resolved /\ ~creqs[i].rejected)
               /\ i \notin listeners
               /\ creqs[i].callbacks = <<>>

\* a notification whose send failed has completed, and a well-formed
\* datagram has arrived since a request began listening
C11_Witness ==
    \E i, j \in 1..Len(creqs) :
        /\ creqs[i].kind = "notify" /\ creqs[i].send = "err" /\ creqs[i].resolved
        /\ creqs[j].kind = "request" /\ Len(creqs[j].callbacks) = 1
        /\ creqs[j].callbacks[1].k = "response"

\* a Simple pattern read as the Targeted pattern that has only its command
AsTargeted(pattern) == IF pattern.t = "obj" THEN pattern ELSE Obj([cmd |-> pattern])

\* C12: decoding (UdpServer.formatPacket) the bytes the client produced for a
\* packet p yields p again: the same pattern, with every host, port and
\* multicast member it had, and the same data.
C12_RoundTrip ==
    \A i \in 1..Len(creqs) :
        LET decoded == ServerFormatPacket(creqs[i].bytes, sopts) IN
        /\ Get(decoded, "pattern") = AsTargeted(Get(creqs[i].packet, "pattern"))
        /\ Get(decoded, "data") = Get(creqs[i].packet, "data")

\* C13: an envelope of which one character of iv, ciphertext, authTag or
\* signature was changed is never opened: decryptAndVerify fails with
\* SignatureMismatch or AuthenticationFailure; and a signature mismatch is
\* found before the decipher is created.
C13_TamperDetected ==
    \A i \in 1..Len(envs) :
        /\ (envs[i].altered # "none" /\ envs[i].opened.k # "none")
              => envs[i].opened.k \in {"SignatureMismatch", "AuthenticationFailure"}
        /\ envs[i].opened.k = "SignatureMismatch" => ~envs[i].opened.decipher

\* C14: an envelope that reaches a process with the same keys unchanged is
\* opened, and the payload returned equals the payload sealed, whatever the
\* nonce.
C14_RoundTrip ==
    \A i \in 1..Len(envs) :
        (keys = SealKeys /\ envs[i].altered = "none" /\ envs[i].opened.k # "none")
            => /\ envs[i].opened.k = "ok"
               /\ envs[i].opened.v = envs[i].payload

\* a nested payload sealed with the second nonce has been opened
C14_Witness ==
    \E i \in 1..Len(envs) :
        /\ keys = SealKeys /\ envs[i].altered = "none"
        /\ envs[i].nonce = "nonce2"
        /\ envs[i].payload = Obj([cmd |-> Str(CmdA), data |-> Obj([n |-> Null])])
        /\ envs[i].opened.k = "ok"

\* C15: every datagram sent for a request goes to the address and port the
\* request came from, whatever the pattern's host, port and multicast say and
\* whatever the server's multicast configuration is, with several requests in
\* flight; a handler value v is sent as {data: v} and nothing else.
C15_Addressing ==
    \A i \in 1..Len(reqs) :
        /\ \A k \in 1..Len(reqs[i].replies) :
              /\ reqs[i].replies[k].to = reqs[i].rinfo
              /\ reqs[i].replies[k].bytes.k = "json"
              /\ DOMAIN reqs[i].replies[k].bytes.v.f = {"data"}
        /\ reqs[i].outcome = "dispatched"
              => LET sentValues == NonNull(reqs[i].emitted) IN
                 /\ Len(reqs[i].replies) <= Len(sentValues)
                 /\ \A k \in 1..Len(reqs[i].replies) :
                       reqs[i].replies[k].bytes.v.f["data"] = sentValues[k]

\* a multicast server has two requests from different senders in flight,
\* each naming another host, port and multicast, and has sent a value for each
C15_Witness ==
    /\ MulticastEnabled(sopts)
    /\ Len(reqs) = 2
    /\ reqs[1].rinfo # reqs[2].rinfo
    /\ \A i \in 1..2 :
          /\ reqs[i].stream = "open" /\ Len(reqs[i].replies) = 1
          /\ Truthy(Get(Get(Parse(reqs[i].msg), "pattern"), "multicast"))

IsMissingPattern(text) == Contains(text, <<"Missing pattern in message">>)
IsMalformed(text) == Contains(text, <<"Invalid JSON format">>)

\* C16: a datagram that is a JSON object without a pattern, or with a null
\* pattern, is answered by exactly one missing-pattern reply to its sender,
\* which is not the malformed-packet reply, and no handler runs.
C16_MissingPattern ==
    \A i \in 1..Len(reqs) :
        (/\ reqs[i].msg.k = "json" /\ reqs[i].msg.v.t = "obj"
         /\ IsNullish(Get(reqs[i].msg.v, "pattern")))
            => /\ ~reqs[i].invoked
               /\ OneTextReply(reqs[i], IsMissingPattern)
               /\ ~OneTextReply(reqs[i], IsMalformed)

\* C17: a datagram that is no JSON text is answered by exactly one textual
\* error datagram to its sender; no handler is looked up and none runs.
C17_Malformed ==
    \A i \in 1..Len(reqs) :
        reqs[i].msg.k = "garbage"
            => /\ OneTextReply(reqs[i], IsMalformed)
               /\ ~reqs[i].lookedUp /\ ~reqs[i].invoked
               /\ reqs[i].outcome # "uncaught"

\* a datagram that is no JSON text arrived after one that was dispatched
C17_Witness ==
    /\ Len(reqs) = 2
    /\ reqs[1].lookedUp /\ reqs[1].invoked
    /\ reqs[2].msg.k = "garbage" /\ Len(reqs[2].replies) = 1

\* C18: a datagram that arrives is handed to the caller of every request
\* whose listener is attached at that moment, each receiving the datagram's
\* data member (undefined when it has none), and to no other caller: the
\* callers of all outstanding requests get the same response.
C18_CrossDelivery ==
    [][(Len(inbound') = Len(inbound) + 1
        /\ inbound'[Len(inbound')].k = "json" /\ inbound'[Len(inbound')].v.t = "obj")
          => LET resp == inbound'[Len(inbound')].v
                 data == IF "data" \in DOMAIN resp.f THEN resp.f["data"] ELSE Undef
             IN  \A i \in 1..Len(creqs) :
                    creqs'[i].callbacks =
                        IF i \in listeners
                        THEN Append(creqs[i].callbacks, [k |-> "response", v |-> data])
                        ELSE creqs[i].callbacks]_vars

\* one datagram arrived with two requests listening, and both callers got
\* its data
C18_Witness ==
    /\ Len(inbound) = 1 /\ Len(creqs) = 2
    /\ \A i \in 1..2 :
          /\ creqs[i].kind = "request" /\ i \in listeners
          /\ creqs[i].callbacks = <<[k |-> "response", v |-> Str(<<"pong">>)]>>

\* C19: a datagram that is no JSON text, or that has no data member, raises
\* no uncaught exception in the client process.
C19_LocalErrors ==
    \A k \in 1..Len(inbound) :
        (inbound[k].k = "garbage" \/ Get(inbound[k].v, "data") = Undef) => ~ccrashed

----------------------------------------------------------------------------
(* Claims about the server's lifecycle *)

\* C21: the multicast group is joined only when multicast is enabled and
\* only once the bind has succeeded; a join that fails is logged and raises
\* no uncaught exception, and the server stays listening.
C21_JoinNotFatal ==
    /\ membership # "none" => MulticastEnabled(sopts) /\ sstate # "created"
    /\ membership = "failed"
          => /\ ~crashed
             /\ logs # {}

\* C22: once the server is closed, nothing raises an exception: not a value
\* that a handler's stream emits after the close, not a second close.
C22_ClosedQuiet ==
    /\ sstate = "closed" => ~crashed
    /\ "close" \notin raised

----------------------------------------------------------------------------
(* Claims about the client's waiting *)

\* C23: a request whose send succeeded is never completed, failed or sent
\* again by the dispatcher: its caller is called only when a datagram
\* arrives, once per datagram and with a response; while no datagram has
\* arrived the caller has been told nothing.
C23_NoTimeout ==
    [][\A i \in 1..Len(creqs) :
          /\ (creqs'[i].kind = "request" /\ creqs'[i].send = "ok" /\ inbound' = <<>>)
                => creqs'[i].callbacks = <<>>
          /\ (creqs[i].kind = "request" /\ creqs[i].send = "ok")
                => /\ creqs'[i].send = "ok"
                   /\ creqs'[i].bytes = creqs[i].bytes /\ creqs'[i].to = creqs[i].to
                   /\ \/ creqs'[i].callbacks = creqs[i].callbacks
                      \/ /\ Len(inbound') = Len(inbound) + 1
                         /\ Len(creqs'[i].callbacks) = Len(creqs[i].callbacks) + 1
                         /\ creqs'[i].callbacks[Len(creqs'[i].callbacks)].k = "response"]_vars

\* a request got the one datagram that arrived; a request sent afterwards
\* is listening and has been told nothing
C23_Witness ==
    /\ Len(creqs) = 2 /\ Len(inbound) = 1 /\ ~ccrashed
    /\ creqs[1].kind = "request" /\ creqs[1].send = "ok" /\ Len(creqs[1].callbacks) = 1
    /\ creqs[2].kind = "request" /\ creqs[2].send = "ok" /\ 2 \in listeners
    /\ creqs[2].callbacks = <<>>

====
